---------------------------- MODULE Spec2Model ----------------------------
(***************************************************************************)
(* WeCare skin-care product sale system: the product store                 *)
(* (product_manager.py), the invoice writer (invoice_manager.py) and the   *)
(* sale and restock workflows (main.py).                                   *)
(*                                                                         *)
(* Text is modelled character by character: a string is a sequence of      *)
(* one-character strings, so that writing the catalog file and reading it  *)
(* back are real conversions.  The catalog file is the sequence of its     *)
(* lines (input() never returns a line terminator, so no field holds one). *)
(* A cost price is a float with at most one decimal, held as its number of *)
(* tenths (1000.0 is 10000).                                               *)
(***************************************************************************)
EXTENDS Integers, Sequences, FiniteSets, TLC

VARIABLES
    pc,             \* the prompt the program waits at, or the loop it runs
    all_products,   \* product_manager.py: the in-memory list
    file,           \* products.txt, as its lines
    invoice_dir,    \* invoices/: file name -> what was written to it
    now,            \* the wall clock, in whole seconds
    sale_items,     \* make_sale: sale_items
    total_amount,   \* make_sale: total_amount
    restock_items,  \* restock_products: restock_items
    total_cost,     \* restock_products: total_cost
    product_id,     \* the identifier last typed at a product prompt
    quantity,       \* the quantity last typed
    message,        \* the error printed for the last line, "" when there was none
    idx,            \* handle_restock: position of "for item in restock_items"
    entered,        \* history: the cost price typed for each restock line
    tx_start,       \* history: the product list when the transaction began
    completed,      \* history: transactions finished with at least one line
    accepted        \* history: lines accepted since the program started

vars == <<pc, all_products, file, invoice_dir, now, sale_items, total_amount,
          restock_items, total_cost, product_id, quantity, message, idx,
          entered, tx_start, completed, accepted>>

---------------------------------------------------------------------------
(* Bounds of the model *)

\* the user enters at most this many accepted lines in a run of the program,
\* over all its sale and restock transactions
MaxLines == 3

\* what the user types at the prompts
SaleIds == {1, 9}
SaleQuantities == {0, 6, 75, 998}
RestockIds == {1, 3, 9}
RestockQuantities == {0, 5}
RestockCosts == {0, 30}
NewCosts == {0, 25}
NewNames == { <<"a">>, <<"a", ",", " ", "b">> }
NewBrands == { <<"x">> }
NewOrigins == { <<"y">> }

---------------------------------------------------------------------------
(* Python's str, int and float conversions *)

\* item['id'] of a new restock line
None == 0

MARKUP_PERCENTAGE == 200

Digits == <<"0", "1", "2", "3", "4", "5", "6", "7", "8", "9">>

IsDigit(c) == \E d \in 1..10 : Digits[d] = c

DigitValue(c) == (CHOOSE d \in 1..10 : Digits[d] = c) - 1

\* str(n) for an int n
RECURSIVE IntToStr(_)
IntToStr(n) ==
    IF n < 0 THEN <<"-">> \o IntToStr(0 - n)
    ELSE IF n < 10 THEN <<Digits[n + 1]>>
    ELSE IntToStr(n \div 10) \o <<Digits[(n % 10) + 1]>>

\* str(x) for a float x of t tenths: "1000.0", "2.5"
FloatToStr(t) == IntToStr(t \div 10) \o <<".">> \o <<Digits[(t % 10) + 1]>>

\* str.strip()
RECURSIVE Strip(_)
Strip(s) ==
    IF s = <<>> THEN s
    ELSE IF Head(s) = " " THEN Strip(Tail(s))
    ELSE IF s[Len(s)] = " " THEN Strip(SubSeq(s, 1, Len(s) - 1))
    ELSE s

\* the value of a run of digits
RECURSIVE DigitsValue(_)
DigitsValue(s) ==
    IF s = <<>> THEN 0
    ELSE 10 * DigitsValue(SubSeq(s, 1, Len(s) - 1)) + DigitValue(s[Len(s)])

AllDigits(s) == s # <<>> /\ \A i \in 1..Len(s) : IsDigit(s[i])

\* int(s): [ok |-> FALSE] stands for ValueError
ParseInt(s) ==
    LET t == Strip(s)
        neg == t # <<>> /\ Head(t) = "-"
        body == IF neg THEN Tail(t) ELSE t
    IN  IF AllDigits(body)
        THEN [ok |-> TRUE,
              value |-> IF neg THEN 0 - DigitsValue(body) ELSE DigitsValue(body)]
        ELSE [ok |-> FALSE, value |-> 0]

\* float(s), in tenths, for the numerals "ddd" and "ddd.d"
ParseFloat(s) ==
    LET t == Strip(s)
        n == Len(t)
    IN  IF AllDigits(t)
        THEN [ok |-> TRUE, value |-> 10 * DigitsValue(t)]
        ELSE IF n >= 3 /\ t[n - 1] = "." /\ AllDigits(SubSeq(t, 1, n - 2))
                /\ IsDigit(t[n])
        THEN [ok |-> TRUE,
              value |-> 10 * DigitsValue(SubSeq(t, 1, n - 2)) + DigitValue(t[n])]
        ELSE [ok |-> FALSE, value |-> 0]

\* the first position where ", " starts in s, 0 when there is none
FirstSeparator(s) ==
    LET at == {i \in 1..(Len(s) - 1) : s[i] = "," /\ s[i + 1] = " "}
    IN  IF at = {} THEN 0 ELSE CHOOSE i \in at : \A j \in at : i <= j

\* s.split(', ')
RECURSIVE Split(_)
Split(s) ==
    LET i == FirstSeparator(s)
    IN  IF i = 0 THEN <<s>>
        ELSE <<SubSeq(s, 1, i - 1)>> \o Split(SubSeq(s, i + 2, Len(s)))

---------------------------------------------------------------------------
(* product_manager.py *)

Separator == <<",", " ">>

\* the line save_products writes for one product
FormatLine(product) ==
    IntToStr(product.id) \o Separator \o product.name \o Separator
    \o product.brand \o Separator \o IntToStr(product.stock) \o Separator
    \o FloatToStr(product.cost_price) \o Separator \o product.origin

\* the file save_products(products, filename) leaves
save_products(products) == [i \in 1..Len(products) |-> FormatLine(products[i])]

\* one line of load_products: the unpacking of six fields and the conversions
ParseLine(line) ==
    LET f == Split(Strip(line))
    IN  IF Len(f) # 6 THEN [ok |-> FALSE, products |-> <<>>]
        ELSE LET id_val == ParseInt(f[1])
                 stock == ParseInt(f[4])
                 cost_price == ParseFloat(f[5])
             IN  IF id_val.ok /\ stock.ok /\ cost_price.ok
                 THEN [ok |-> TRUE,
                       products |-> << [id |-> id_val.value, name |-> f[2],
                                        brand |-> f[3], stock |-> stock.value,
                                        cost_price |-> cost_price.value,
                                        origin |-> f[6]] >>]
                 ELSE [ok |-> FALSE, products |-> <<>>]

\* load_products(filename) of an existing file: [ok |-> FALSE] stands for the
\* ValueError a malformed line raises, which nothing catches
RECURSIVE load_products(_)
load_products(lines) ==
    IF lines = <<>> THEN [ok |-> TRUE, products |-> <<>>]
    ELSE LET rest == load_products(Tail(lines))
             first == IF Strip(Head(lines)) = <<>>
                      THEN [ok |-> TRUE, products |-> <<>>]
                      ELSE ParseLine(Head(lines))
         IN  IF first.ok /\ rest.ok
             THEN [ok |-> TRUE, products |-> first.products \o rest.products]
             ELSE [ok |-> FALSE, products |-> <<>>]

\* the file load_products creates when products.txt does not exist
sample_data ==
    << <<"1",","," ","V","i","t","a","m","i","n"," ","C"," ","S","e","r","u","m",
         ","," ","G","a","r","n","i","e","r",","," ","2","0","0",","," ",
         "1","0","0","0",","," ","F","r","a","n","c","e">>,
       <<"2",","," ","S","k","i","n"," ","C","l","e","a","n","s","e","r",","," ",
         "C","e","t","a","p","h","i","l",","," ","1","0","0",","," ",
         "2","8","0",","," ","S","w","i","t","z","e","r","l","a","n","d">>,
       <<"3",","," ","S","u","n","s","c","r","e","e","n",","," ",
         "A","q","u","a","l","o","g","i","c","a",","," ","2","0","0",","," ",
         "7","0","0",","," ","I","n","d","i","a">> >>

\* get_next_id(products)
RECURSIVE MaxIdFrom(_, _)
MaxIdFrom(products, max_id) ==
    IF products = <<>> THEN max_id
    ELSE MaxIdFrom(Tail(products),
                   IF Head(products).id > max_id THEN Head(products).id ELSE max_id)

\* mutant: the largest identifier itself
get_next_id_no_increment(products) == MaxIdFrom(products, 0)

\* mutant: the number of products plus one
get_next_id_by_count(products) == Len(products) + 1

get_next_id(products) == MaxIdFrom(products, 0) + 1

\* "for product in ...: if product['id'] == wanted: ... break": the position of
\* the first product with that identifier, 0 when the loop finds none
FindProduct(products, wanted) ==
    LET at == {i \in 1..Len(products) : wanted # None /\ products[i].id = wanted}
    IN  IF at = {} THEN 0 ELSE CHOOSE i \in at : \A j \in at : i <= j

\* mutant: the file is saved before the stock is set
update_product_stock_save_first(products, lines, wanted, new_stock) ==
    LET i == FindProduct(products, wanted)
    IN  IF i = 0 THEN [products |-> products, file |-> lines]
        ELSE [products |-> [products EXCEPT ![i].stock = new_stock],
              file |-> save_products(products)]

\* update_product_stock(product_id, new_stock): the list and the file it leaves
update_product_stock(products, lines, wanted, new_stock) ==
    LET i == FindProduct(products, wanted)
        updated == [products EXCEPT ![i].stock = new_stock]
    IN  IF i = 0 THEN [products |-> products, file |-> lines]
        ELSE [products |-> updated, file |-> save_products(updated)]

\* mutant: the stock is assigned, not increased
ApplyRestockItem_assign_stock(products, item) ==
    LET i == FindProduct(products, item.id)
    IN  IF i # 0
        THEN [products EXCEPT ![i].stock = item.quantity,
                              ![i].cost_price = item.cost_price,
                              ![i].brand = item.brand,
                              ![i].origin = item.origin]
        ELSE Append(products, [id |-> get_next_id(products),
                               name |-> item.name,
                               brand |-> item.brand,
                               stock |-> item.quantity,
                               cost_price |-> item.cost_price,
                               origin |-> item.origin])

\* handle_restock: the body of "for item in restock_items" for one item
ApplyRestockItem(products, item) ==
    LET i == FindProduct(products, item.id)
    IN  IF i # 0
        THEN [products EXCEPT ![i].stock = @ + item.quantity,
                              ![i].cost_price = item.cost_price,
                              ![i].brand = item.brand,
                              ![i].origin = item.origin]
        ELSE Append(products, [id |-> get_next_id(products),
                               name |-> item.name,
                               brand |-> item.brand,
                               stock |-> item.quantity,
                               cost_price |-> item.cost_price,
                               origin |-> item.origin])

---------------------------------------------------------------------------
(* invoice_manager.py *)

\* make_invoice_filename(invoice_dir, prefix): strftime("%Y%m%d_%H%M%S") names
\* the second the clock reads and nothing finer
make_invoice_filename(prefix, clock) == <<prefix, clock>>

\* open(filename, 'w') and the writes: the directory after the invoice is written
write_invoice(dir, filename, invoice_data) ==
    [f \in DOMAIN dir \cup {filename} |->
        IF f = filename THEN invoice_data ELSE dir[f]]

---------------------------------------------------------------------------
(* main.py *)

\* get_valid_input for a number: whether the loop returns the value typed.
\* min_value counts in the unit of the value; the cost price of a new product
\* has min_value 0.01, which a value of whole tenths passes iff it is >= 1 tenth
get_valid_input(value, min_value, allow_zero) ==
    /\ ~(value < min_value)
    /\ (allow_zero \/ value # 0)

\* product['cost_price'] * (1 + MARKUP_PERCENTAGE/100)
selling_price(product) == (product.cost_price * (100 + MARKUP_PERCENTAGE)) \div 100

NoItem == [id |-> None, name |-> <<>>, brand |-> <<>>, quantity |-> 0,
           free_items |-> 0, price |-> 0, total |-> 0]

\* the dictionary process_sale_item returns (main.py 87-95)
SaleItem(product, qty, free_items) ==
    [id |-> product.id, name |-> product.name, brand |-> product.brand,
     quantity |-> qty, free_items |-> free_items,
     price |-> selling_price(product), total |-> qty * selling_price(product)]

\* mutant: the stock is not checked against quantity plus free items
process_sale_item_no_free_check(product, qty) ==
    IF qty <= 0
    THEN [item |-> NoItem, error |-> "Quantity must be positive"]
    ELSE IF qty > product.stock
    THEN [item |-> NoItem, error |-> "Only N items available in stock"]
    ELSE [item |-> SaleItem(product, qty, qty \div 3), error |-> ""]

\* mutant: the stock is checked against the free items alone
process_sale_item_free_only_check(product, qty) ==
    IF qty <= 0
    THEN [item |-> NoItem, error |-> "Quantity must be positive"]
    ELSE IF qty > product.stock
    THEN [item |-> NoItem, error |-> "Only N items available in stock"]
    ELSE IF qty \div 3 > product.stock
    THEN [item |-> NoItem, error |-> "Not enough stock for free items"]
    ELSE [item |-> SaleItem(product, qty, qty \div 3), error |-> ""]

\* mutant: one free item for a purchase of three or more
process_sale_item_one_free(product, qty) ==
    LET free_items == IF qty >= 3 THEN 1 ELSE 0
    IN  IF qty <= 0
        THEN [item |-> NoItem, error |-> "Quantity must be positive"]
        ELSE IF qty > product.stock
        THEN [item |-> NoItem, error |-> "Only N items available in stock"]
        ELSE IF qty + free_items > product.stock
        THEN [item |-> NoItem, error |-> "Not enough stock for free items"]
        ELSE [item |-> SaleItem(product, qty, free_items), error |-> ""]

\* process_sale_item(product, quantity): (sale item, error)
process_sale_item(product, qty) ==
    IF qty <= 0
    THEN [item |-> NoItem, error |-> "Quantity must be positive"]
    ELSE IF qty > product.stock
    THEN [item |-> NoItem, error |-> "Only N items available in stock"]
    ELSE LET free_items == qty \div 3
             total_items == qty + free_items
         IN  IF total_items > product.stock
             THEN [item |-> NoItem, error |-> "Not enough stock for free items"]
             ELSE [item |-> SaleItem(product, qty, free_items), error |-> ""]

\* the restock line of an existing product (main.py 233-243)
existing_restock_item(product, qty, cost) ==
    [id |-> product.id, name |-> product.name, brand |-> product.brand,
     quantity |-> qty,
     cost_price |-> IF cost = 0 THEN product.cost_price ELSE cost,
     origin |-> product.origin]

\* the restock line of a new product (main.py 199-206)
new_restock_item(name, brand, origin, qty, cost) ==
    [id |-> None, name |-> name, brand |-> brand, quantity |-> qty,
     cost_price |-> cost, origin |-> origin]

---------------------------------------------------------------------------
(* The state machine *)

\* products.txt as the program may find it: absent, or a catalog saved earlier
InitialFiles ==
    { sample_data,
      << <<"1",","," ","a",","," ","x",","," ","8",","," ","2",".","5",","," ","y">>,
         <<"3",","," ","b",","," ","x",","," ","4",","," ","1","0",".","0",","," ","y">> >> }

Init ==
    /\ file \in InitialFiles
    /\ load_products(file).ok
    /\ all_products = load_products(file).products
    /\ pc = "menu"
    /\ invoice_dir = <<>>
    /\ now = 0
    /\ sale_items = <<>>
    /\ total_amount = 0
    /\ restock_items = <<>>
    /\ total_cost = 0
    /\ product_id = None
    /\ quantity = 0
    /\ message = ""
    /\ idx = 0
    /\ entered = <<>>
    /\ tx_start = all_products
    /\ completed = 0
    /\ accepted = 0

Locals == <<sale_items, total_amount, restock_items, total_cost, product_id,
            quantity, message, idx, entered>>

\* the function returns: its locals are gone
Return ==
    /\ pc' = "menu"
    /\ sale_items' = <<>>
    /\ total_amount' = 0
    /\ restock_items' = <<>>
    /\ total_cost' = 0
    /\ product_id' = None
    /\ quantity' = 0
    /\ message' = ""
    /\ idx' = 0
    /\ entered' = <<>>

\* main: choice '2', make_sale up to its first product prompt
ChooseSale ==
    /\ pc = "menu"
    /\ pc' = "sale"
    /\ tx_start' = all_products
    /\ UNCHANGED <<all_products, file, invoice_dir, now, Locals, completed, accepted>>

\* make_sale: one turn of the loop for a product identifier and a quantity
SaleLine(pid, qty) ==
    /\ pc = "sale"
    /\ accepted < MaxLines
    /\ product_id' = pid
    /\ LET i == FindProduct(all_products, pid)
           product == all_products[i]
           r == process_sale_item(product, qty)
           store == update_product_stock(all_products, file, product.id,
                        product.stock - (r.item.quantity + r.item.free_items))
       IN  IF i = 0
           THEN /\ message' = "Product ID not found"
                /\ UNCHANGED <<quantity, sale_items, total_amount, all_products,
                               file, accepted>>
           ELSE /\ get_valid_input(qty, 1, FALSE)
                /\ quantity' = qty
                /\ message' = r.error
                /\ IF r.error # ""
                   THEN UNCHANGED <<sale_items, total_amount, all_products,
                                    file, accepted>>
                   ELSE /\ accepted' = accepted + 1
                        /\ sale_items' = Append(sale_items, r.item)
                        /\ total_amount' = total_amount + r.item.total
                        /\ all_products' = store.products
                        /\ file' = store.file
    /\ UNCHANGED <<pc, invoice_dir, now, restock_items, total_cost, idx, entered,
                   tx_start, completed>>

\* make_sale: 'done', and the invoice when there is a line
SaleDone ==
    /\ pc = "sale"
    /\ IF sale_items # <<>>
       THEN /\ \E t \in {now, now + 1} :
                 /\ now' = t
                 /\ invoice_dir' = write_invoice(invoice_dir,
                        make_invoice_filename("sale", t),
                        [items |-> Len(sale_items), total_amount |-> total_amount])
            /\ completed' = completed + 1
       ELSE UNCHANGED <<invoice_dir, now, completed>>
    /\ Return
    /\ UNCHANGED <<all_products, file, tx_start, accepted>>

\* main: choice '3', restock_products up to its first product prompt
ChooseRestock ==
    /\ pc = "menu"
    /\ pc' = "restock"
    /\ tx_start' = all_products
    /\ UNCHANGED <<all_products, file, invoice_dir, now, Locals, completed, accepted>>

\* restock_products: one turn of the loop for 'new'
RestockNewLine(name, brand, origin, qty, cost) ==
    /\ pc = "restock"
    /\ accepted < MaxLines
    /\ get_valid_input(qty, 1, FALSE)
    /\ get_valid_input(cost, 1, FALSE)
    /\ restock_items' = Append(restock_items,
                               new_restock_item(name, brand, origin, qty, cost))
    /\ total_cost' = total_cost + qty * cost
    /\ entered' = Append(entered, cost)
    /\ accepted' = accepted + 1
    /\ UNCHANGED <<pc, all_products, file, invoice_dir, now, sale_items,
                   total_amount, product_id, quantity, message, idx, tx_start,
                   completed>>

\* restock_products: one turn of the loop for a product identifier
RestockLine(pid, qty, cost) ==
    /\ pc = "restock"
    /\ accepted < MaxLines
    /\ LET i == FindProduct(all_products, pid)
           item == existing_restock_item(all_products[i], qty, cost)
       IN  IF i = 0
           THEN /\ message' = "Product ID not found"
                /\ UNCHANGED <<restock_items, total_cost, entered, accepted>>
           ELSE /\ get_valid_input(qty, 1, FALSE)
                /\ get_valid_input(cost, 0, TRUE)
                /\ message' = ""
                /\ restock_items' = Append(restock_items, item)
                /\ total_cost' = total_cost + qty * item.cost_price
                /\ entered' = Append(entered, cost)
                /\ accepted' = accepted + 1
    /\ UNCHANGED <<pc, all_products, file, invoice_dir, now, sale_items,
                   total_amount, product_id, quantity, idx, tx_start, completed>>

\* restock_products: 'done'; with a line, handle_restock starts
RestockDone ==
    /\ pc = "restock"
    /\ IF restock_items # <<>>
       THEN /\ pc' = "handle_restock"
            /\ idx' = 1
            /\ UNCHANGED <<sale_items, total_amount, restock_items, total_cost,
                           product_id, quantity, message, entered>>
       ELSE Return
    /\ UNCHANGED <<all_products, file, invoice_dir, now, tx_start, completed, accepted>>

\* handle_restock: the loop body for an item that is not the last
RestockApply ==
    /\ pc = "handle_restock"
    /\ idx < Len(restock_items)
    /\ all_products' = ApplyRestockItem(all_products, restock_items[idx])
    /\ idx' = idx + 1
    /\ UNCHANGED <<pc, file, invoice_dir, now, sale_items, total_amount,
                   restock_items, total_cost, product_id, quantity, message,
                   entered, tx_start, completed, accepted>>

\* handle_restock: the loop body for the last item, the save, and the invoice
RestockCommit ==
    /\ pc = "handle_restock"
    /\ idx = Len(restock_items)
    /\ all_products' = ApplyRestockItem(all_products, restock_items[idx])
    /\ file' = save_products(all_products')
    /\ \E t \in {now, now + 1} :
          /\ now' = t
          /\ invoice_dir' = write_invoice(invoice_dir,
                 make_invoice_filename("restock", t),
                 [items |-> Len(restock_items), total_amount |-> total_cost])
    /\ completed' = completed + 1
    /\ Return
    /\ UNCHANGED <<tx_start, accepted>>

\* main: choice '4'
Exit ==
    /\ pc = "menu"
    /\ pc' = "exit"
    /\ UNCHANGED <<all_products, file, invoice_dir, now, Locals, tx_start, completed,
                   accepted>>

Next ==
    \/ ChooseSale
    \/ \E pid \in SaleIds, qty \in SaleQuantities : SaleLine(pid, qty)
    \/ SaleDone
    \/ ChooseRestock
    \/ \E name \in NewNames, brand \in NewBrands, origin \in NewOrigins,
          qty \in RestockQuantities, cost \in NewCosts :
          RestockNewLine(name, brand, origin, qty, cost)
    \/ \E pid \in RestockIds, qty \in RestockQuantities, cost \in RestockCosts :
          RestockLine(pid, qty, cost)
    \/ RestockDone
    \/ RestockApply
    \/ RestockCommit
    \/ Exit

Spec == Init /\ [][Next]_vars

---------------------------------------------------------------------------
(* The claims *)

StockOf(products, id) == products[FindProduct(products, id)].stock

\* the units (paid and free) the lines of one sale take from one product
RECURSIVE Consumed(_, _)
Consumed(items, id) ==
    IF items = <<>> THEN 0
    ELSE Consumed(Tail(items), id)
         + (IF Head(items).id = id
            THEN Head(items).quantity + Head(items).free_items ELSE 0)

\* the quantity the first k lines of a restock batch bring to one product
RECURSIVE Restocked(_, _, _)
Restocked(items, k, id) ==
    IF k = 0 THEN 0
    ELSE Restocked(items, k - 1, id)
         + (IF items[k].id = id THEN items[k].quantity ELSE 0)

DistinctIds(products) ==
    \A i, j \in 1..Len(products) : products[i].id = products[j].id => i = j

\* C1: every product's stock is >= 0 in every state, and during a sale the
\* units its lines have taken from a product (paid + free) never exceed the
\* stock the product had when the sale began.
C1_StockNeverNegative ==
    /\ \A i \in 1..Len(all_products) : all_products[i].stock >= 0
    /\ pc = "sale" =>
          \A i \in 1..Len(tx_start) :
              /\ Consumed(sale_items, tx_start[i].id) <= tx_start[i].stock
              /\ all_products[i].stock
                    = tx_start[i].stock - Consumed(sale_items, tx_start[i].id)

\* two lines of one sale on the same product have emptied it, and a third line
\* on it was refused
C1_Witness ==
    /\ pc = "sale"
    /\ Len(sale_items) = 2
    /\ sale_items[1].id = sale_items[2].id
    /\ StockOf(all_products, sale_items[1].id) = 0
    /\ product_id = sale_items[1].id
    /\ message = "Only N items available in stock"

\* C2: no two products of the in-memory list share an identifier, and no step
\* removes a product or changes its identifier or name.
C2_UniqueIdsNoRemoval ==
    [][ /\ DistinctIds(all_products')
        /\ Len(all_products') >= Len(all_products)
        /\ \A i \in 1..Len(all_products) :
              /\ all_products'[i].id = all_products[i].id
              /\ all_products'[i].name = all_products[i].name ]_vars

\* a batch of a new line, an existing-identifier line and a new line, two of
\* them applied
C2_Witness ==
    /\ pc = "handle_restock"
    /\ Len(restock_items) = 3
    /\ restock_items[1].id = None
    /\ restock_items[2].id # None
    /\ restock_items[3].id = None
    /\ idx = 3
    /\ Len(all_products) = Len(tx_start) + 1

\* C3: a step that records a sale line of quantity q on a product of stock s
\* records quantity q and free_items q div 3, and leaves the product with stock
\* s - (q + q div 3) in memory, every other field and product as it was, and
\* the catalog file holding the lines of that list.
C3_AcceptedSaleLine ==
    [][ (pc = "sale" /\ Len(sale_items') = Len(sale_items) + 1) =>
        LET i == FindProduct(all_products, product_id')
            q == quantity'
            s == all_products[i].stock
            item == sale_items'[Len(sale_items')]
        IN  /\ i # 0
            /\ q >= 1
            /\ item.id = product_id'
            /\ item.quantity = q
            /\ item.free_items = q \div 3
            /\ SubSeq(sale_items', 1, Len(sale_items)) = sale_items
            /\ all_products'
                  = [all_products EXCEPT ![i].stock = s - (q + q \div 3)]
            /\ Len(file') = Len(all_products')
            /\ \A k \in 1..Len(file') : file'[k] = FormatLine(all_products'[k])
            /\ ParseLine(file'[i]).ok =>
                  ParseLine(file'[i]).products[1].stock = s - (q + q \div 3)
      ]_vars

\* the seed catalog's product 1 (stock 200) sold with quantity 6: 2 free, 192 left
C3_Witness ==
    /\ pc = "sale"
    /\ Len(sale_items) = 1
    /\ sale_items[1].id = 1
    /\ sale_items[1].quantity = 6
    /\ sale_items[1].free_items = 2
    /\ StockOf(tx_start, 1) = 200
    /\ StockOf(all_products, 1) = 192
    /\ ParseLine(file[1]).products[1].stock = 192

\* C4: a step of the sale loop that reads a line whose quantity plus free items
\* exceeds the product's stock records no line item and leaves the running
\* total, the product list and the catalog file as they were, and the loop at
\* its prompt.
C4_RejectedSaleLine ==
    [][ LET i == FindProduct(all_products, product_id')
            q == quantity'
        IN  (pc = "sale" /\ i # 0 /\ q + q \div 3 > all_products[i].stock) =>
                /\ pc' = "sale"
                /\ sale_items' = sale_items
                /\ total_amount' = total_amount
                /\ all_products' = all_products
                /\ file' = file
      ]_vars

\* quantity 998 asked of the seed catalog's product 1 (stock 200) and refused
C4_Witness ==
    /\ pc = "sale"
    /\ product_id = 1
    /\ quantity = 998
    /\ message = "Only N items available in stock"
    /\ sale_items = <<>>
    /\ total_amount = 0
    /\ StockOf(all_products, 1) = 200

\* what the loop of handle_restock is about to apply
CurrentItem == restock_items[idx]

\* C5: a step of handle_restock for an item whose identifier matches no product
\* appends one product with the item's name, brand, origin and cost price, stock
\* = the item's quantity, and an identifier one above the largest identifier of
\* the list at that moment (so above every identifier given earlier in the batch).
C5_NewProductId ==
    [][ (pc = "handle_restock"
         /\ \A k \in 1..Len(all_products) : all_products[k].id # CurrentItem.id) =>
        LET n == Len(all_products)
            new == all_products'[n + 1]
        IN  /\ Len(all_products') = n + 1
            /\ SubSeq(all_products', 1, n) = all_products
            /\ new.stock = CurrentItem.quantity
            /\ new.name = CurrentItem.name
            /\ new.brand = CurrentItem.brand
            /\ new.origin = CurrentItem.origin
            /\ new.cost_price = CurrentItem.cost_price
            /\ \A k \in 1..n : all_products[k].id < new.id
            /\ \E k \in 1..n : all_products[k].id = new.id - 1
      ]_vars

\* two new lines of one batch committed on a catalog whose largest identifier
\* was 3: they got 4 and 5
C5_Witness ==
    /\ pc = "menu"
    /\ completed >= 1
    /\ Len(tx_start) = Len(all_products) - 2
    /\ \A k \in 1..Len(tx_start) : tx_start[k].id <= 3
    /\ \E k \in 1..Len(tx_start) : tx_start[k].id = 3
    /\ all_products[Len(all_products) - 1].id = 4
    /\ all_products[Len(all_products)].id = 5

\* C6: a step of handle_restock for an item whose identifier matches a product
\* adds the item's quantity to that product's stock and sets its cost price,
\* brand and origin to the item's, leaving its identifier, its name and every
\* other product as they were; and after every step of the loop each product of
\* the catalog the batch started from holds its stock of then plus the
\* quantities of the lines applied so far for its identifier.
C6_RestockExisting ==
    [][ pc = "handle_restock" =>
        LET i == FindProduct(all_products, CurrentItem.id)
            old == all_products[i]
        IN  /\ i # 0 =>
                all_products' = [all_products EXCEPT ![i] =
                    [id |-> old.id, name |-> old.name,
                     brand |-> CurrentItem.brand,
                     stock |-> old.stock + CurrentItem.quantity,
                     cost_price |-> CurrentItem.cost_price,
                     origin |-> CurrentItem.origin]]
            /\ \A k \in 1..Len(tx_start) :
                  all_products'[k].stock
                     = tx_start[k].stock + Restocked(restock_items, idx, tx_start[k].id)
      ]_vars

\* a batch of two lines for product 1 committed: its stock rose by both quantities
C6_Witness ==
    /\ pc = "menu"
    /\ completed = 1
    /\ Len(all_products) = Len(tx_start)
    /\ all_products[1].stock = tx_start[1].stock + 10
    /\ \E f \in DOMAIN invoice_dir : f[1] = "restock" /\ invoice_dir[f].items = 2

\* C7: a step of handle_restock for an existing-identifier line that was entered
\* with cost price 0 leaves the product's cost price as it was before the step.
C7_ZeroKeepsCurrentCost ==
    [][ (pc = "handle_restock"
         /\ FindProduct(all_products, CurrentItem.id) # 0
         /\ entered[idx] = 0) =>
        LET i == FindProduct(all_products, CurrentItem.id)
        IN  all_products'[i].cost_price = all_products[i].cost_price
      ]_vars

\* C8: the invoice directory holds one file for each transaction that finished
\* with at least one line item (no invoice is written over an earlier one).
C8_OneFilePerInvoice == Cardinality(DOMAIN invoice_dir) = completed

\* C9: save_products followed by load_products gives back the product list the
\* program holds in memory.
C9_SaveLoadRoundTrip ==
    load_products(save_products(all_products))
        = [ok |-> TRUE, products |-> all_products]

AtPrompt == pc \in {"menu", "sale", "restock"}

\* the file holds what the program read the list from or last wrote from it
FileInSync ==
    /\ \/ load_products(file) = [ok |-> TRUE, products |-> all_products]
       \/ file = save_products(all_products)
    /\ load_products(file).ok => load_products(file).products = all_products

\* C10: whenever the program waits at a prompt the catalog file records the
\* in-memory list, product by product in the same order; the steps of the restock
\* loop change neither the list nor the file; and the file is written only by
\* the step that ends handle_restock or records a sale line.
C10_FileSynchronized ==
    /\ [](AtPrompt => FileInSync)
    /\ [][ /\ (pc = "restock" /\ pc' = "restock") =>
                (all_products' = all_products /\ file' = file)
           /\ file' # file =>
                \/ pc = "sale" /\ Len(sale_items') = Len(sale_items) + 1
                \/ pc = "handle_restock" /\ pc' = "menu"
         ]_vars

\* a sale line accepted and not yet followed by 'done': the file already holds it
C10_Witness ==
    /\ pc = "sale"
    /\ Len(sale_items) = 1
    /\ all_products # tx_start
    /\ file = save_products(all_products)
    /\ load_products(file).products = all_products

===========================================================================
